---- MODULE Spec2Model ----
(***************************************************************************)
(* pypes.py: lengths of a set of equal tempered pipes.                     *)
(*                                                                         *)
(* The script is one linear pass: parse the arguments, pick and rotate the *)
(* mode, build the chromatic table, build the table of pipe frequencies,   *)
(* compute the lengths, print the report.  Each block of the script is one *)
(* action; the two loops with behaviour of their own (the pipe loop and    *)
(* the report loop) take one step per iteration.                           *)
(*                                                                         *)
(* Numbers.  The script computes with floats.  A frequency is kept here as *)
(* the exact product it is built from,                                     *)
(*     fund * et_step^cf * oct     (et_step = 2^(1/args.step)),            *)
(* a record [fund, cf, oct] of integers.  Lengths are kept as exact        *)
(* rationals over such a frequency.  Float rounding is not modelled.       *)
(* The print statements are read as Python 2 statements (the script's      *)
(* dialect: `print (...).format(...)`).                                    *)
(***************************************************************************)
EXTENDS Integers, Sequences, FiniteSets, TLC

\* ---------------------------------------------------------------- bounds
MaxStep  == 3      \* --step is drawn from -1..MaxStep, and the default
MaxPipes == 8      \* --numpipes is drawn from 0..MaxPipes
MaxLen   == 2      \* an explicit --mode has 1..MaxLen steps
MaxOff   == 3      \* --index is drawn from 1-MaxOff..1+MaxOff
MaxFreq  == 4      \* frequencies tried on get_length: 1..MaxFreq
MaxVel   == 2      \* speeds of sound tried on get_length: -1..MaxVel
MaxCorr  == 2      \* plug depths and diameters tried on get_length: 0..MaxCorr

\* ------------------------------------------------------- program constants
DefaultStep     == 12
DefaultVelocity == 343
DefaultRound    == 2
DiatonicMode    == <<2, 2, 1, 2, 2, 2, 1>>

\* argparse leaves --mode at None when it is not given; `not args.mode` is
\* true of None as of the empty list, which stands for it here.
None == <<>>

\* ------------------------------------------------------------ input sets
StepVals     == -1..2
Modes        == {None} \cup UNION {[1..n -> StepVals] : n \in 1..MaxLen}
Steps        == (-1..MaxStep) \cup {DefaultStep}
NumPipes     == 0..MaxPipes
Indexes      == (1 - MaxOff)..(1 + MaxOff)
Fundamentals == {0, 1}
Rounds       == {-1, DefaultRound}

VARIABLES
    pc,                \* the block of the script that runs next
    args,              \* the parsed arguments (args.mode is rewritten)
    pipes_per_octave,
    double_safe,
    chrom_freqs,
    pipe_freqs,
    cf_index,
    octave,
    mode_index,
    ith,               \* loop variable of the pipe loop and of the report loop
    pipe_lengths,
    out,               \* the lines printed so far
    err                \* the exception that ended the run, or "none"

vars == <<pc, args, pipes_per_octave, double_safe, chrom_freqs, pipe_freqs,
          cf_index, octave, mode_index, ith, pipe_lengths, out, err>>

\* ------------------------------------------------------- python helpers
RECURSIVE Sum(_)
Sum(s) == IF s = <<>> THEN 0 ELSE Head(s) + Sum(Tail(s))

\* list * n
Repeat(x, n) == [i \in 1..(IF n > 0 THEN n ELSE 0) |-> x]

\* a slice bound, as list slicing normalises it: a negative bound counts
\* from the end, and the result is clipped to 0..len
SliceBound(k, len) ==
    LET j == IF k < 0 THEN k + len ELSE k
    IN  IF j < 0 THEN 0 ELSE IF j > len THEN len ELSE j

\* s[k:]
SliceFrom(s, k) == SubSeq(s, SliceBound(k, Len(s)) + 1, Len(s))

\* s[:k]
SliceTo(s, k) == SubSeq(s, 1, SliceBound(k, Len(s)))

\* s[k] is defined for -len <= k < len; At reads it for 0 <= k < len
InRange(s, k) == -Len(s) <= k /\ k < Len(s)
At(s, k) == s[(IF k < 0 THEN k + Len(s) ELSE k) + 1]

\* --------------------------------------------------------- frequencies
Freq(fund, cf, oct) == [fund |-> fund, cf |-> cf, oct |-> oct]

\* the 0 the tables are filled with before they are computed
Zero == Freq(0, 0, 0)

\* freq * et_step
TimesEtStep(f) == [f EXCEPT !.cf = @ + 1]

\* freq * n
Times(f, n) == [f EXCEPT !.oct = @ * n]

IsZero(f) == f.fund = 0 \/ f.oct = 0

\* ------------------------------------------------------------ rationals
Rat(n, d) == IF d < 0 THEN [num |-> -n, den |-> -d] ELSE [num |-> n, den |-> d]
RatAdd(a, b) == Rat(a.num * b.den + b.num * a.den, a.den * b.den)
RatSub(a, b) == Rat(a.num * b.den - b.num * a.den, a.den * b.den)
RatLess(a, b) == a.num * b.den < b.num * a.den

\* a variant of get_length that multiplies where the script divides
get_length_times(freq, a) ==
    LET velcm == a.velocity * 100
    IN  [quarter |-> Rat(velcm * 4 * freq.fund * freq.oct, 1),
         cf      |-> freq.cf,
         corr    |-> RatSub(Rat(a.plug, 1), Rat(4 * a.diameter, 10))]

\* get_length: velcm / (4 * freq) + plug - 0.4 * diameter.  The quotient is
\* (velcm / (4 * fund * oct)) * et_step^(-cf): its rational factor and cf.
get_length(freq, a) ==
    LET velcm == a.velocity * 100
    IN  [quarter |-> Rat(velcm, 4 * freq.fund * freq.oct),
         cf      |-> freq.cf,
         corr    |-> RatSub(Rat(a.plug, 1), Rat(4 * a.diameter, 10))]

\* the value of a length whose frequency is a plain number (cf = 0)
LengthValue(l) == RatAdd(l.quarter, l.corr)

\* ------------------------------------------------------ the mode (64-81)
\* lines 65-71
DefaultMode(a) ==
    IF a.mode = None
    THEN IF a.diatonic THEN DiatonicMode ELSE Repeat(1, a.step)
    ELSE a.mode

\* a variant of Rotate that drops the head of the list: mode[off:]
RotateNoWrap(mode, off) == SliceFrom(mode, off)

\* line 74: mode[off:] + mode[:off]
Rotate(mode, off) == SliceFrom(mode, off) \o SliceTo(mode, off)

\* -------------------------------------------------- the pipe loop (96-109)
\* line 100
Shortcut(pf, i, ppo) == Times(At(pf, i - (ppo + 1)), 2)

\* variants of NextOctave: one never doubles, one doubles an iteration late
NextOctaveNever(oct, i, ppo) == oct
NextOctaveLate(oct, i, ppo) == IF (i - 1) % ppo = 0 THEN oct * 2 ELSE oct

\* lines 104-105
NextOctave(oct, i, ppo) == IF i % ppo = 0 THEN oct * 2 ELSE oct

\* a variant of ModeIndex that reads the step of the next degree
ModeIndexAhead(i, ppo) == i % ppo

\* line 106
ModeIndex(i, ppo) == (i - 1) % ppo

\* a variant of NextCfIndex that does not wrap
NextCfIndexNoWrap(cf, step, n) == cf + step

\* lines 107-108
NextCfIndex(cf, step, n) == (cf + step) % n

\* ---------------------------------------------------------------- Init
Init ==
    /\ pc = "mode"
    /\ args \in [fundamental : Fundamentals,
                 step        : Steps,
                 numpipes    : NumPipes,
                 velocity    : {DefaultVelocity},
                 mode        : Modes,
                 diatonic    : BOOLEAN,
                 index       : Indexes,
                 round       : Rounds,
                 plug        : {0},
                 diameter    : {0},
                 extra       : {FALSE}]
    /\ pipes_per_octave = 0
    /\ double_safe = TRUE
    /\ chrom_freqs = <<>>
    /\ pipe_freqs = <<>>
    /\ cf_index = 0
    /\ octave = 1
    /\ mode_index = 0
    /\ ith = 0
    /\ pipe_lengths = <<>>
    /\ out = <<>>
    /\ err = "none"

Raise(e) ==
    /\ pc' = "failed"
    /\ err' = e

\* lines 65-71: the default mode
SetMode ==
    /\ pc = "mode"
    /\ args' = [args EXCEPT !.mode = DefaultMode(args)]
    /\ pc' = "rotate"
    /\ UNCHANGED <<pipes_per_octave, double_safe, chrom_freqs, pipe_freqs,
                   cf_index, octave, mode_index, ith, pipe_lengths, out, err>>

\* lines 73-76: rotate the mode to the index of the lowest pipe
RotateMode ==
    /\ pc = "rotate"
    /\ args' = [args EXCEPT !.mode = Rotate(args.mode, args.index - 1)]
    /\ pipes_per_octave' = Len(args'.mode)
    /\ pc' = "sumcheck"
    /\ UNCHANGED <<double_safe, chrom_freqs, pipe_freqs, cf_index, octave,
                   mode_index, ith, pipe_lengths, out, err>>

Advisory == [kind |-> "advisory"]

\* a variant of SumMismatch that counts the steps instead of summing them
SumMismatchLen(mode, step) == Len(mode) # step

\* line 78
SumMismatch(mode, step) == Sum(mode) # step

\* lines 77-81: the steps should add up to an octave
SumCheck ==
    /\ pc = "sumcheck"
    /\ IF SumMismatch(args.mode, args.step)
       THEN /\ double_safe' = FALSE
            /\ out' = Append(out, Advisory)
       ELSE /\ double_safe' = TRUE
            /\ out' = out
    /\ pc' = "chrom"
    /\ UNCHANGED <<args, pipes_per_octave, chrom_freqs, pipe_freqs, cf_index,
                   octave, mode_index, ith, pipe_lengths, err>>

\* lines 87-88: chrom_freqs[k] = chrom_freqs[k - 1] * et_step
RECURSIVE ChromTable(_, _)
ChromTable(fund, n) ==
    IF n = 1 THEN <<Freq(fund, 0, 1)>>
    ELSE LET t == ChromTable(fund, n - 1)
         IN  Append(t, TimesEtStep(t[n - 1]))

\* lines 84-88: the table of one chromatic octave
BuildChrom ==
    /\ pc = "chrom"
    /\ IF args.step = 0
       THEN \* line 84: 1.0 / args.step
            /\ Raise("ZeroDivisionError")
            /\ UNCHANGED chrom_freqs
       ELSE IF args.step < 0
       THEN \* line 86: chrom_freqs[0] of the empty list
            /\ Raise("IndexError")
            /\ chrom_freqs' = <<>>
       ELSE /\ chrom_freqs' = ChromTable(args.fundamental, args.step)
            /\ pc' = "pipeinit"
            /\ UNCHANGED err
    /\ UNCHANGED <<args, pipes_per_octave, double_safe, pipe_freqs, cf_index,
                   octave, mode_index, ith, pipe_lengths, out>>

\* lines 91-95
PipeInit ==
    /\ pc = "pipeinit"
    /\ cf_index' = 0
    /\ IF args.numpipes <= 0
       THEN \* line 93: pipe_freqs[0] of the empty list
            /\ Raise("IndexError")
            /\ pipe_freqs' = <<>>
            /\ UNCHANGED <<double_safe, octave, ith>>
       ELSE /\ pipe_freqs' = [Repeat(Zero, args.numpipes) EXCEPT ![1] = At(chrom_freqs, 0)]
            /\ double_safe' = FALSE
            /\ octave' = 1
            /\ ith' = 1
            /\ pc' = "pipes"
            /\ UNCHANGED err
    /\ UNCHANGED <<args, pipes_per_octave, chrom_freqs, mode_index,
                   pipe_lengths, out>>

\* lines 96-109: one iteration of the pipe loop
PipeStep ==
    /\ pc = "pipes"
    /\ ith < args.numpipes
    /\ IF double_safe /\ ith > pipes_per_octave
       THEN \* line 100: double the value from an octave below
            /\ pipe_freqs' = [pipe_freqs EXCEPT ![ith + 1] =
                                Shortcut(pipe_freqs, ith, pipes_per_octave)]
            /\ ith' = ith + 1
            /\ UNCHANGED <<octave, mode_index, cf_index, pc, err>>
       ELSE IF pipes_per_octave = 0
       THEN \* line 104: ith % 0
            /\ Raise("ZeroDivisionError")
            /\ UNCHANGED <<pipe_freqs, octave, mode_index, cf_index, ith>>
       ELSE /\ octave' = NextOctave(octave, ith, pipes_per_octave)
            /\ mode_index' = ModeIndex(ith, pipes_per_octave)
            /\ IF ~InRange(args.mode, mode_index')
               THEN \* line 107: args.mode[mode_index]
                    /\ Raise("IndexError")
                    /\ UNCHANGED <<pipe_freqs, cf_index, ith>>
               ELSE /\ cf_index' = NextCfIndex(cf_index,
                                               At(args.mode, mode_index'),
                                               args.step)
                    /\ IF ~InRange(chrom_freqs, cf_index')
                       THEN \* line 109: chrom_freqs[cf_index]
                            /\ Raise("IndexError")
                            /\ UNCHANGED <<pipe_freqs, ith>>
                       ELSE /\ pipe_freqs' = [pipe_freqs EXCEPT ![ith + 1] =
                                   Times(At(chrom_freqs, cf_index'), octave')]
                            /\ ith' = ith + 1
                            /\ UNCHANGED <<pc, err>>
    /\ UNCHANGED <<args, pipes_per_octave, double_safe, chrom_freqs,
                   pipe_lengths, out>>

\* line 112: the lengths, once the pipe loop has run out
ComputeLengths ==
    /\ pc = "pipes"
    /\ ith >= args.numpipes
    /\ IF \E k \in DOMAIN pipe_freqs : IsZero(pipe_freqs[k])
       THEN \* line 62: velcm / (4 * freq)
            /\ Raise("ZeroDivisionError")
            /\ UNCHANGED <<pipe_lengths, ith>>
       ELSE /\ pipe_lengths' = [k \in DOMAIN pipe_freqs |->
                                   get_length(pipe_freqs[k], args)]
            /\ ith' = 0
            /\ pc' = "report"
            /\ UNCHANGED err
    /\ UNCHANGED <<args, pipes_per_octave, double_safe, chrom_freqs,
                   pipe_freqs, cf_index, octave, mode_index, out>>

\* lines 118-134: the line of pipe i
PipeLine(i) ==
    [kind   |-> "pipe",
     ith    |-> i,
     length |-> At(pipe_lengths, i),
     l_zp   |-> args.round,
     freq   |-> IF args.extra THEN <<At(pipe_freqs, i)>> ELSE <<>>]

\* lines 116-134: one iteration of the report loop
Report ==
    /\ pc = "report"
    /\ ith < Len(pipe_lengths)
    /\ IF args.round < 0
       THEN \* line 118: a format specification with a negative precision
            /\ Raise("ValueError")
            /\ UNCHANGED <<out, ith>>
       ELSE /\ out' = Append(out, PipeLine(ith))
            /\ ith' = ith + 1
            /\ pc' = IF ith' < Len(pipe_lengths) THEN "report" ELSE "done"
            /\ UNCHANGED err
    /\ UNCHANGED <<args, pipes_per_octave, double_safe, chrom_freqs,
                   pipe_freqs, cf_index, octave, mode_index, pipe_lengths>>

Next ==
    \/ SetMode
    \/ RotateMode
    \/ SumCheck
    \/ BuildChrom
    \/ PipeInit
    \/ PipeStep
    \/ ComputeLengths
    \/ Report

Spec == Init /\ [][Next]_vars

\* ---------------------------------------------------------------------
\* get_length on its own: the script from line 112 on, over two pipes whose
\* frequencies are plain numbers.
InitLength ==
    /\ pc = "pipes"
    /\ args \in [fundamental : {1},
                 step        : {1},
                 numpipes    : {2},
                 velocity    : -1..MaxVel,
                 mode        : {<<1>>},
                 diatonic    : {FALSE},
                 index       : {1},
                 round       : {DefaultRound},
                 plug        : 0..MaxCorr,
                 diameter    : 0..MaxCorr,
                 extra       : BOOLEAN]
    /\ pipes_per_octave = 1
    /\ double_safe = FALSE
    /\ chrom_freqs = <<Freq(1, 0, 1)>>
    /\ pipe_freqs \in [1..2 -> {Freq(f, 0, 1) : f \in 1..MaxFreq}]
    /\ cf_index = 0
    /\ octave = 1
    /\ mode_index = 0
    /\ ith = 2
    /\ pipe_lengths = <<>>
    /\ out = <<>>
    /\ err = "none"

NextLength ==
    \/ ComputeLengths
    \/ Report

SpecLength == InitLength /\ [][NextLength]_vars

\* =====================================================================
\* Properties
\* =====================================================================
Range(s) == {s[k] : k \in DOMAIN s}

\* the pipes (0-based) whose frequency has been computed
Assigned == {k \in 0..(Len(pipe_freqs) - 1) : At(pipe_freqs, k) # Zero}

\* the pattern in use tiles the octave: steps >= 1 that sum to args.step
Tiles ==
    /\ args.mode # <<>>
    /\ \A k \in DOMAIN args.mode : args.mode[k] >= 1
    /\ Sum(args.mode) = args.step

\* the mode has been rotated and its sum checked
Checked == pc \notin {"mode", "rotate", "sumcheck"}

RECURSIVE Pow2(_)
Pow2(n) == IF n <= 0 THEN 1 ELSE 2 * Pow2(n - 1)

RECURSIVE Log2(_)
Log2(n) == IF n <= 1 THEN 0 ELSE 1 + Log2(n \div 2)

\* the sum of the first i steps of the cyclically repeated pattern
RECURSIVE Prefix(_)
Prefix(i) ==
    IF i = 0 THEN 0
    ELSE Prefix(i - 1) + args.mode[((i - 1) % Len(args.mode)) + 1]

\* chromaticIndex_i of the recurrence
RECURSIVE ChromaticIndex(_)
ChromaticIndex(i) ==
    IF i = 0 THEN 0
    ELSE (ChromaticIndex(i - 1) + args.mode[((i - 1) % Len(args.mode)) + 1])
             % args.step

\* chromatic steps above the fundamental
Pitch(f) == f.cf + args.step * Log2(f.oct)

\* s rotated left by k, 0 <= k < Len(s)
RotateLeft(s, k) == SubSeq(s, k + 1, Len(s)) \o SubSeq(s, 1, k)

\* the steps of s, with their multiplicities
Multiset(s) == [v \in Range(s) |-> Cardinality({k \in DOMAIN s : s[k] = v})]

\* ---------------------------------------------------------------------
\* C1: when the pattern has steps >= 1 that sum to args.step, the index is
\* 1 and there are more pipes than steps in the pattern, the pipe at index
\* pipes_per_octave is computed by the general recurrence (double_safe is
\* off) as chrom_freqs[0] * 2, which is fundamental * 2.
C1_OctaveAtCycleLength ==
    (Tiles /\ args.index = 1 /\ pipes_per_octave \in Assigned)
        => /\ ~double_safe
           /\ At(pipe_freqs, pipes_per_octave) = Times(At(chrom_freqs, 0), 2)
           /\ At(pipe_freqs, pipes_per_octave) = Freq(args.fundamental, 0, 2)

C1_Witness ==
    /\ args.mode = DiatonicMode
    /\ args.step = DefaultStep
    /\ args.index = 1
    /\ args.fundamental # 0
    /\ 7 \in Assigned
    /\ pc = "done"

\* ---------------------------------------------------------------------
\* the state part and the step part of C2
C2_State ==
    (args.step >= 1 /\ args.numpipes >= 1 /\ Checked)
        => /\ (Advisory \in Range(out)) <=> (Sum(args.mode) # args.step)
           /\ pc = "pipes"
                => /\ Len(pipe_freqs) = args.numpipes
                   /\ ith <= args.numpipes
                   /\ Assigned = 0..(ith - 1)
           /\ pc \in {"report", "done", "failed"}
                => /\ Len(pipe_freqs) = args.numpipes
                   /\ Assigned = 0..(args.numpipes - 1)

C2_Step ==
    /\ pc \notin {"mode", "rotate"} => args' = args
    /\ (pc = "pipes" /\ pc' = "pipes") => ith' = ith + 1

\* C2: for args.step >= 1 and args.numpipes >= 1, the advisory is printed
\* exactly when the steps of the pattern do not sum to args.step; the
\* pattern is then left as it is; and the pipe loop advances by one pipe
\* per iteration and ends, without an exception, with args.numpipes
\* frequencies.
C2_AdvisoryAndFullSeries == [] C2_State /\ [][C2_Step]_vars

C2_Witness ==
    /\ args.mode = <<2, 2>>
    /\ args.step = 3
    /\ args.numpipes = 5
    /\ Advisory \in Range(out)
    /\ Assigned = 0..4
    /\ pc = "done"

\* ---------------------------------------------------------------------
\* C3: the pattern in use is the base pattern rotated left by
\* (args.index - 1) mod its length, whatever the index.
C3_RotationIsModular ==
    [][(pc = "rotate" /\ args.mode # <<>>)
          => args'.mode = RotateLeft(args.mode,
                                     (args.index - 1) % Len(args.mode))]_vars

\* ---------------------------------------------------------------------
\* what C4 says of the rotation step
C4_RotateStep ==
    pc = "rotate"
        => /\ Len(args'.mode) = Len(args.mode)
           /\ Multiset(args'.mode) = Multiset(args.mode)
           /\ args.index = Len(args.mode) + 1
                => args'.mode = Rotate(args.mode, 1 - 1)
           /\ args.index = 1
                => args'.mode = Rotate(args.mode, (Len(args.mode) + 1) - 1)

\* C4: index 1 and index len(pattern) + 1 give the same rotated pattern,
\* and the rotated pattern always has the length and the multiset of steps
\* of the base pattern.
C4_FullTurnIsIdentity == [][C4_RotateStep]_vars

C4_Witness ==
    /\ pc = "sumcheck"
    /\ args.mode = <<1, 2>>
    /\ args.index = 3

\* ---------------------------------------------------------------------
\* C5: a run that ends in an exception has printed nothing, neither a pipe
\* line nor the advisory; a run that ends normally has printed
\* args.numpipes pipe lines.
C5_AllOrNothing ==
    /\ err # "none" => out = <<>>
    /\ pc = "done"
         => Cardinality({k \in DOMAIN out : out[k].kind = "pipe"})
                = args.numpipes

\* ---------------------------------------------------------------------
\* C6 as stated: for every speed of sound, plug depth and diameter, a
\* higher frequency gives a strictly shorter pipe.
C6_DecreasingAnyVelocity ==
    pc \in {"report", "done"}
        => \A i, j \in DOMAIN pipe_freqs :
               pipe_freqs[i].fund < pipe_freqs[j].fund
                   => RatLess(LengthValue(pipe_lengths[j]),
                              LengthValue(pipe_lengths[i]))

\* C6 amended: for every speed of sound > 0, every plug depth and every
\* diameter, a higher frequency gives a strictly shorter pipe.
C6_DecreasingPositiveVelocity ==
    (pc \in {"report", "done"} /\ args.velocity > 0)
        => \A i, j \in DOMAIN pipe_freqs :
               (0 < pipe_freqs[i].fund /\ pipe_freqs[i].fund < pipe_freqs[j].fund)
                   => RatLess(LengthValue(pipe_lengths[j]),
                              LengthValue(pipe_lengths[i]))

C6_Witness ==
    /\ pc = "report"
    /\ args.velocity > 0
    /\ args.plug > 0
    /\ args.diameter > 0
    /\ pipe_freqs[1].fund < pipe_freqs[2].fund
    /\ RatLess(LengthValue(pipe_lengths[2]), LengthValue(pipe_lengths[1]))

\* ---------------------------------------------------------------------
\* the state part and the step part of C7
C7_State ==
    /\ (pc = "pipes" /\ ith = 1) => octave = 1
    /\ pc = "pipes" => octave = Pow2((ith - 1) \div pipes_per_octave)
    /\ \A i \in Assigned :
           At(pipe_freqs, i) =
               Times(At(chrom_freqs, ChromaticIndex(i)),
                     Pow2(i \div pipes_per_octave))

C7_Step ==
    (pc = "pipes" /\ pc' = "pipes")
        => /\ octave' = IF ith % pipes_per_octave = 0
                        THEN 2 * octave ELSE octave
           /\ At(pipe_freqs', ith) = Times(At(chrom_freqs, cf_index'), octave')

\* C7: octave starts at 1 and is doubled exactly in the iterations i >= 1
\* with i mod pipes_per_octave = 0, before the step of pipe i is taken and
\* whatever the sum of the pattern; so pipe i is
\* chrom_freqs[chromaticIndex_i] * 2^floor(i / pipes_per_octave).
C7_OctaveDoublesOnCycleBoundary == [] C7_State /\ [][C7_Step]_vars

C7_Witness ==
    /\ pc = "pipes"
    /\ args.mode = <<2, 2>>
    /\ args.step = 3
    /\ ith = 5
    /\ octave = 4
    /\ At(pipe_freqs, 4) = Freq(args.fundamental, 2, 4)

C9_ShortcutAgrees ==
    Tiles
        => \A i \in Assigned :
               i > pipes_per_octave
                   => \/ Shortcut(pipe_freqs, i, pipes_per_octave)
                             = At(pipe_freqs, i)
                      \/ /\ IsZero(Shortcut(pipe_freqs, i, pipes_per_octave))
                         /\ IsZero(At(pipe_freqs, i))

\* ---------------------------------------------------------------------
\* C10: for args.step >= 1 and args.numpipes >= 1, throughout the pipe loop
\* 0 <= cf_index <= args.step - 1 and 0 <= mode_index <=
\* pipes_per_octave - 1, and no list access of the loop is out of range.
C10_IndicesInRange ==
    (args.step >= 1 /\ args.numpipes >= 1
        /\ pc \notin {"mode", "rotate", "sumcheck", "chrom", "pipeinit"})
        => /\ 0 <= cf_index /\ cf_index <= args.step - 1
           /\ 0 <= mode_index /\ mode_index <= pipes_per_octave - 1
           /\ Len(chrom_freqs) = args.step
           /\ Len(args.mode) = pipes_per_octave
           /\ err # "IndexError"

C10_Witness ==
    /\ pc = "pipes"
    /\ args.mode = <<-1, 0>>
    /\ args.step = 3
    /\ ith = 4
    /\ cf_index = 1
    /\ mode_index = 0

====
